---- MODULE Spec2Model ----
(***************************************************************************)
(* threat2yar: rule curation (validate_yara.py) and regex synthesis        *)
(* (generate_regex.py).                                                    *)
(*                                                                         *)
(* Text is held as a sequence of one-character strings, so that len() and  *)
(* the regular expressions of the source act on real characters.  Scores   *)
(* are held in quarters (score * 4): the weights 3, 1, 0.5 and the         *)
(* multiplier 1.5 only produce multiples of 0.25, which binary floating    *)
(* point represents exactly.                                               *)
(***************************************************************************)
EXTENDS Integers, Sequences, FiniteSets, TLC

VARIABLES
    rule, score,                     \* calculate_complexity: argument, result
    cfg, files, buckets, dirs, temps,\* classification pass: config.py, yara-db
    listing, pass, log, decisions,   \* classification pass: os.listdir, history
    corpus, idx, pc, clusters, regex_patterns, master_rule_seq,
    todo, emitted, hist,             \* synthesis pass
    file_paths, position, query_count, \* convert_yara.main: the loop over samples
    stage, converted                 \* convert_yara.main: where it is, history

scoreVars == <<rule, score>>
routeVars == <<cfg, files, buckets, dirs, temps, listing, pass, log, decisions>>
synthVars == <<corpus, idx, pc, clusters, regex_patterns, master_rule_seq,
               todo, emitted, hist>>
convertVars == <<file_paths, position, query_count, stage, converted>>
vars == <<scoreVars, routeVars, synthVars, convertVars>>

----------------------------------------------------------------------------
(* Bounds of the model *)

MaxStrings == 2      \* string assignments per rule in the scoring inputs
MaxPasses == 2       \* runs of validate_yara.main over the same folder
MaxFiles == 3        \* rule files of a small corpus of the synthesis pass
MaxTime == 2         \* seconds on the clock that stamps the master rule files
MaxWalks == 2        \* runs of generate_regex over the same folder
SingleFiles == 12    \* rule files of the corpus of one-string files
BatchFiles == 6      \* rule files of the corpus that fills the batch

----------------------------------------------------------------------------
(* Characters and text *)

Rep(c, n) == [i \in 1..n |-> c]

HexDigits == {"0", "1", "2", "3", "4", "5", "6", "7", "8", "9",
              "A", "B", "C", "D", "E", "F", "a", "b", "c", "d", "e", "f"}
Whitespace == {" ", "\t"}

\* n characters of hex bytes separated by blanks: "4D 5A 4D ..."
RECURSIVE HexBytes(_)
HexBytes(n) ==
    IF n = 0 THEN <<>>
    ELSE HexBytes(n - 1) \o
         <<CASE n % 3 = 1 -> "4" [] n % 3 = 2 -> "D" [] OTHER -> " ">>

ByteArray(n) == <<"{">> \o HexBytes(n - 2) \o <<"}">>        \* { 4D 5A ... }
Quoted(n) == <<"\"">> \o Rep("x", n - 2) \o <<"\"">>         \* "xxxx"
Bare(n) == Rep("p", n)                                       \* loose literal

----------------------------------------------------------------------------
(* validate_yara.calculate_complexity *)

byte_array_weight == 12     \* 3 in quarters
code_snippet_weight == 4    \* 1 in quarters
file_path_weight == 2       \* 0.5 in quarters
all_of_multiplier_x2 == 3   \* 1.5, applied as * 3 / 2

NoCondition == "<no condition: marker>"

\* 'all of' in condition, over the condition texts of the model
ContainsAllOf(condition) ==
    condition \in {"all of them", "all of ($a*)", "uint16(0) == 0x5A4D and all of them"}

\* re.match(r'{[0-9A-Fa-f\s]+}', string): anchored at the start only
MatchesByteArray(string) ==
    /\ Len(string) >= 3
    /\ string[1] = "{"
    /\ \E j \in 3..Len(string) :
          /\ string[j] = "}"
          /\ \A i \in 2..(j - 1) : string[i] \in HexDigits \cup Whitespace

\* re.match(r'\".*\"', string): anchored at the start only
MatchesQuoted(string) ==
    /\ Len(string) >= 2
    /\ string[1] = "\""
    /\ \E j \in 2..Len(string) : string[j] = "\""

WeightWrongOrder(string) ==
    IF MatchesQuoted(string) THEN code_snippet_weight
    ELSE IF MatchesByteArray(string) THEN code_snippet_weight
    ELSE file_path_weight

Weight(string) ==
    IF MatchesByteArray(string) THEN byte_array_weight
    ELSE IF MatchesQuoted(string) THEN code_snippet_weight
    ELSE file_path_weight

\* the for loop over strings, from position i with the running total
RECURSIVE ComplexityLoop(_, _, _)
ComplexityLoop(strings, i, total_complexity) ==
    IF i > Len(strings) THEN total_complexity
    ELSE IF Len(strings[i]) < 5
         THEN ComplexityLoop(strings, i + 1, total_complexity)
         ELSE ComplexityLoop(strings, i + 1,
                             total_complexity + Len(strings[i]) * Weight(strings[i]))

AdjustNoCount(strings, condition, total) ==
    IF ContainsAllOf(condition) THEN (total * all_of_multiplier_x2) \div 2 ELSE total

AdjustForCondition(strings, condition, total) ==
    IF ContainsAllOf(condition) /\ Len(strings) > 1
    THEN (total * all_of_multiplier_x2) \div 2
    ELSE total

calculate_complexity(rule_content) ==
    IF rule_content.condition = NoCondition THEN 0
    ELSE AdjustForCondition(rule_content.strings, rule_content.condition,
                            ComplexityLoop(rule_content.strings, 1, 0))

----------------------------------------------------------------------------
(* Rule text.  A rule file's text is held as what the source reads off it:  *)
(*   strings   the right-hand sides of the "$name = ..." lines, in order     *)
(*   condition the text captured after "condition:", or NoCondition          *)
(*   marks     which of the substrings the source searches for are present   *)
(*   cves      the years of the CVE-YYYY-<digits> tokens, in text order      *)
(*   ok        whether the YARA binary exits 0 on this text                  *)

OUTPUT_NON_CVE_FOLDER == "non-cve"
OUTPUT_WEAK_RULES_FOLDER == "weak-rules"
OUTPUT_BROKEN_RULES_FOLDER == "broken"
OUTPUT_CVE_YEAR_PREFIX == "year-"
YARA_COMPLEXITY_THRESHOLD == 100

WeakIndicators == {"pe.imphash", "hash.sha256", "cuckoo."}
CveNA == "cve_id = \"N/A\""
CvePlaceholder == "cve_id = \"CVE-2021-XXXX\""     \* cve_id = "CVE-\d+-XXXX"
\* common.is_unacceptable_yara_rule_response, over the marks of the model
ErrorConditions == {"No suitable response", "CHANGE_ME", "CVE-XXXX-XXXX", "$string1"}

accepts_every_response(yara_rule) == FALSE

is_unacceptable_yara_rule_response(yara_rule) ==
    \E condition \in ErrorConditions : condition \in yara_rule.marks

MkText(strings, condition, marks, cves, ok) ==
    [strings |-> strings, condition |-> condition, marks |-> marks,
     cves |-> cves, ok |-> ok]

\* strings and condition of the sample rules: scores 0, 0, 90, 100, 150
Shapes ==
    { [strings |-> <<>>, condition |-> "any of them"],
      [strings |-> <<ByteArray(20)>>, condition |-> NoCondition],
      [strings |-> <<ByteArray(20), Bare(4)>>, condition |-> "all of them"],
      [strings |-> <<ByteArray(20), Quoted(40)>>, condition |-> "any of them"],
      [strings |-> <<ByteArray(20), Quoted(40)>>, condition |-> "all of them"] }

MarkSets ==
    { {}, {"pe.imphash"}, {CveNA}, {CvePlaceholder}, {"hash.sha256", CveNA} }

CveLists == { <<>>, <<"2019", "2021">> }

Texts ==
    { MkText(sh.strings, sh.condition, m, c, ok) :
        sh \in Shapes, m \in MarkSets, c \in CveLists, ok \in BOOLEAN }

StrongShape == [strings |-> <<ByteArray(20), Quoted(40)>>, condition |-> "all of them"]

\* what fix_yara_rule can hand back as the fixed rule
FixTexts ==
    { MkText(StrongShape.strings, StrongShape.condition, {}, <<"2021">>, TRUE),
      MkText(StrongShape.strings, StrongShape.condition, {}, <<>>, TRUE),
      MkText(StrongShape.strings, StrongShape.condition, {"cuckoo."}, <<"2019">>, TRUE),
      MkText(StrongShape.strings, StrongShape.condition, {}, <<"2021">>, FALSE),
      MkText(StrongShape.strings, StrongShape.condition, {"CHANGE_ME"}, <<"2021">>, TRUE) }

\* fix_yara_rule: None (exception, no choices) or an empty string, or a text
FixResponses ==
    { [kind |-> "none", text |-> MkText(<<>>, NoCondition, {}, <<>>, FALSE)] }
    \cup { [kind |-> "text", text |-> t] : t \in FixTexts }

----------------------------------------------------------------------------
(* validate_yara.check_rule_syntax *)

Checked(result, content, v, o, t, flags, fixed) ==
    [result |-> result, content |-> content, validator_calls |-> v,
     oracle_calls |-> o, temp_files |-> t, fix_flags |-> flags, fixed |-> fixed]

\* the YARA binary run on the rule although an earlier branch was taken
CheckedAnyway(content) == Checked(content.ok, content, 1, 0, 0, <<FALSE>>, <<>>)

NotChecked(content) == Checked(FALSE, content, 0, 0, 0, <<>>, <<>>)

\* check_rule_syntax with a second repair round when the fixed text fails
check_rule_syntax_again(content, attempt_fix, response) ==
    IF content.ok
    THEN Checked(TRUE, content, 1, 0, 0, <<attempt_fix>>, <<>>)
    ELSE IF ~attempt_fix \/ response.kind = "none"
            \/ is_unacceptable_yara_rule_response(response.text)
    THEN Checked(FALSE, content, 1, IF attempt_fix THEN 1 ELSE 0, 0, <<attempt_fix>>, <<>>)
    ELSE IF response.text.ok
    THEN Checked(TRUE, response.text, 2, 1, 1, <<attempt_fix, FALSE>>, <<response.text>>)
    ELSE Checked(FALSE, content, 3, 2, 2, <<attempt_fix, TRUE, FALSE>>, <<response.text>>)

\* check_rule_syntax with the fixed text moved over the file before the
\* second run
check_rule_syntax_keeps_fix(content, attempt_fix, response) ==
    IF content.ok
    THEN Checked(TRUE, content, 1, 0, 0, <<attempt_fix>>, <<>>)
    ELSE IF ~attempt_fix
    THEN Checked(FALSE, content, 1, 0, 0, <<attempt_fix>>, <<>>)
    ELSE IF response.kind = "none" \/ is_unacceptable_yara_rule_response(response.text)
    THEN Checked(FALSE, content, 1, 1, 0, <<attempt_fix>>, <<>>)
    ELSE Checked(response.text.ok, response.text, 2, 1, 1, <<attempt_fix, FALSE>>,
                 <<response.text>>)

\* The result (True / False), the content of the file afterwards, and what
\* was done on the way: runs of the YARA binary, calls of fix_yara_rule,
\* temporary files written, the attempt_fix argument of each run in order,
\* and the fixed text that went to the second run, if any.
RECURSIVE check_rule_syntax(_, _, _)
check_rule_syntax(content, attempt_fix, response) ==
    IF content.ok
    THEN Checked(TRUE, content, 1, 0, 0, <<attempt_fix>>, <<>>)
    ELSE IF ~attempt_fix
    THEN Checked(FALSE, content, 1, 0, 0, <<attempt_fix>>, <<>>)
    ELSE IF response.kind = "none"
    THEN Checked(FALSE, content, 1, 1, 0, <<attempt_fix>>, <<>>)
    ELSE IF is_unacceptable_yara_rule_response(response.text)
    THEN Checked(FALSE, content, 1, 1, 0, <<attempt_fix>>, <<>>)
    ELSE LET inner == check_rule_syntax(response.text, FALSE, response)
         IN  Checked(inner.result,
                     IF inner.result THEN response.text ELSE content,
                     1 + inner.validator_calls,
                     1 + inner.oracle_calls,
                     1 + inner.temp_files,
                     <<attempt_fix>> \o inner.fix_flags,
                     <<response.text>>)

----------------------------------------------------------------------------
(* validate_yara.process_files: the body of the loop for one file *)

HasWeakIndicator(content) == \E w \in WeakIndicators : w \in content.marks
HasMissingCve(content) == CveNA \in content.marks \/ CvePlaceholder \in content.marks

Threshold4(T) == 4 * T       \* the threshold in quarters

BelowThresholdInclusive(complexity, T) == 0 < complexity /\ complexity <= Threshold4(T)

\* 0 < complexity < YARA_COMPLEXITY_THRESHOLD
BelowThreshold(complexity, T) == 0 < complexity /\ complexity < Threshold4(T)

Decision(reason, sub_folder, check) ==
    [reason |-> reason, sub_folder |-> sub_folder, check |-> check]

LeftInPlace == "<left in place>"

\* the if / elif chain with the non-CVE test ahead of the weak indicators
ClassifyNonCveFirst(content, T, attempt_fix, response) ==
    LET complexity == IF T = 0 THEN 0 ELSE calculate_complexity(content)
    IN  IF BelowThreshold(complexity, T)
        THEN Decision("complexity", OUTPUT_WEAK_RULES_FOLDER, NotChecked(content))
        ELSE IF HasMissingCve(content)
        THEN Decision("non-cve", OUTPUT_NON_CVE_FOLDER, NotChecked(content))
        ELSE IF HasWeakIndicator(content)
        THEN Decision("weak-indicator", OUTPUT_WEAK_RULES_FOLDER, NotChecked(content))
        ELSE LET check == check_rule_syntax(content, attempt_fix, response)
             IN  IF ~check.result
                 THEN Decision("broken", OUTPUT_BROKEN_RULES_FOLDER, check)
                 ELSE IF content.cves # <<>>
                 THEN Decision("year", OUTPUT_CVE_YEAR_PREFIX \o content.cves[1], check)
                 ELSE Decision("none", LeftInPlace, check)

\* the if / elif chain with a last branch that sends a rule without a CVE
\* token to non-cve
ClassifyUnmatchedToNonCve(content, T, attempt_fix, response) ==
    LET complexity == IF T = 0 THEN 0 ELSE calculate_complexity(content)
    IN  IF BelowThreshold(complexity, T)
        THEN Decision("complexity", OUTPUT_WEAK_RULES_FOLDER, NotChecked(content))
        ELSE IF HasWeakIndicator(content)
        THEN Decision("weak-indicator", OUTPUT_WEAK_RULES_FOLDER, NotChecked(content))
        ELSE IF HasMissingCve(content)
        THEN Decision("non-cve", OUTPUT_NON_CVE_FOLDER, NotChecked(content))
        ELSE LET check == check_rule_syntax(content, attempt_fix, response)
             IN  IF ~check.result
                 THEN Decision("broken", OUTPUT_BROKEN_RULES_FOLDER, check)
                 ELSE IF content.cves # <<>>
                 THEN Decision("year", OUTPUT_CVE_YEAR_PREFIX \o content.cves[1], check)
                 ELSE Decision("none", OUTPUT_NON_CVE_FOLDER, check)

\* the if / elif chain with the CVE token looked for in the text that is on
\* disk after check_rule_syntax
ClassifyFromFixedText(content, T, attempt_fix, response) ==
    LET complexity == IF T = 0 THEN 0 ELSE calculate_complexity(content)
    IN  IF BelowThreshold(complexity, T)
        THEN Decision("complexity", OUTPUT_WEAK_RULES_FOLDER, NotChecked(content))
        ELSE IF HasWeakIndicator(content)
        THEN Decision("weak-indicator", OUTPUT_WEAK_RULES_FOLDER, NotChecked(content))
        ELSE IF HasMissingCve(content)
        THEN Decision("non-cve", OUTPUT_NON_CVE_FOLDER, NotChecked(content))
        ELSE LET check == check_rule_syntax(content, attempt_fix, response)
             IN  IF ~check.result
                 THEN Decision("broken", OUTPUT_BROKEN_RULES_FOLDER, check)
                 ELSE IF check.content.cves # <<>>
                 THEN Decision("year", OUTPUT_CVE_YEAR_PREFIX \o check.content.cves[1],
                               check)
                 ELSE Decision("none", LeftInPlace, check)

\* the if / elif chain of the loop body: which branch is taken, the folder it
\* names, and what check_rule_syntax did if it was reached
Classify(content, T, attempt_fix, response) ==
    LET complexity == IF T = 0 THEN 0 ELSE calculate_complexity(content)
    IN  IF BelowThreshold(complexity, T)
        THEN Decision("complexity", OUTPUT_WEAK_RULES_FOLDER, NotChecked(content))
        ELSE IF HasWeakIndicator(content)
        THEN Decision("weak-indicator", OUTPUT_WEAK_RULES_FOLDER, NotChecked(content))
        ELSE IF HasMissingCve(content)
        THEN Decision("non-cve", OUTPUT_NON_CVE_FOLDER, NotChecked(content))
        ELSE LET check == check_rule_syntax(content, attempt_fix, response)
             IN  IF ~check.result
                 THEN Decision("broken", OUTPUT_BROKEN_RULES_FOLDER, check)
                 ELSE IF content.cves # <<>>
                 THEN Decision("year", OUTPUT_CVE_YEAR_PREFIX \o content.cves[1], check)
                 ELSE Decision("none", LeftInPlace, check)

----------------------------------------------------------------------------
(* The yara-db folder *)

FileNames == {"a.yar", "b.yar"}

Put(f, name, text) == [n \in DOMAIN f \cup {name} |-> IF n = name THEN text ELSE f[n]]
Drop(f, name) == [n \in DOMAIN f \ {name} |-> f[n]]
EmptyDir == [n \in {} |-> 0]

BucketNames ==
    {OUTPUT_NON_CVE_FOLDER, OUTPUT_WEAK_RULES_FOLDER, OUTPUT_BROKEN_RULES_FOLDER}
    \cup {OUTPUT_CVE_YEAR_PREFIX \o y : y \in {"2019", "2021"}}

\* the buckets that hold a file of this name
BucketsOf(name) == {b \in BucketNames : name \in DOMAIN buckets[b]}

\* the second file of the folder, when there is one
SecondTexts ==
    { MkText(StrongShape.strings, StrongShape.condition, {}, <<"2019">>, TRUE),
      MkText(StrongShape.strings, StrongShape.condition, {}, <<>>, FALSE),
      MkText(<<ByteArray(20), Bare(4)>>, "all of them", {CveNA}, <<>>, TRUE) }

\* yara-db as found: one rule file, or two
Folders ==
    { [n \in {"a.yar"} |-> t] : t \in Texts }
    \cup { [n \in FileNames |-> IF n = "a.yar" THEN t ELSE u] :
             t \in {x \in Texts : x.marks = {} /\ x.cves # <<>>}, u \in SecondTexts }

Configs ==
    [COPY_MODE : BOOLEAN, SILENT_MODE : BOOLEAN, FIX_BAD_RULES : BOOLEAN,
     YARA_COMPLEXITY_THRESHOLD : {0, YARA_COMPLEXITY_THRESHOLD}]

IdleScore == /\ rule = MkText(<<>>, NoCondition, {}, <<>>, FALSE)
             /\ score = 0
IdleSynth == /\ corpus = <<>>
             /\ idx = 0
             /\ pc = "idle"
             /\ clusters = <<>>
             /\ regex_patterns = <<>>
             /\ master_rule_seq = 0
             /\ todo = <<>>
             /\ emitted = <<>>
             /\ hist = <<>>
IdleConvert == /\ file_paths = <<>>
               /\ position = 0
               /\ query_count = 0
               /\ stage = "idle"
               /\ converted = <<>>
IdleRoute == /\ cfg = [COPY_MODE |-> TRUE, SILENT_MODE |-> TRUE, FIX_BAD_RULES |-> TRUE,
                       YARA_COMPLEXITY_THRESHOLD |-> YARA_COMPLEXITY_THRESHOLD]
             /\ files = EmptyDir
             /\ buckets = [b \in BucketNames |-> EmptyDir]
             /\ dirs = {}
             /\ temps = 0
             /\ listing = {}
             /\ pass = 0
             /\ log = EmptyDir
             /\ decisions = EmptyDir

RouteInit ==
    /\ cfg \in Configs
    /\ files \in Folders
    /\ buckets = [b \in BucketNames |-> EmptyDir]
    /\ dirs = {}
    /\ temps = 0
    /\ listing = {}
    /\ pass = 0
    /\ log = EmptyDir
    /\ decisions = [n \in DOMAIN files |-> 0]
    /\ IdleScore /\ IdleSynth /\ IdleConvert

\* main: the three output folders are made, then process_files lists yara-db
StartPass ==
    /\ listing = {}
    /\ pass < MaxPasses
    /\ pass' = pass + 1
    /\ dirs' = dirs \cup {OUTPUT_NON_CVE_FOLDER, OUTPUT_WEAK_RULES_FOLDER,
                          OUTPUT_BROKEN_RULES_FOLDER}
    /\ listing' = DOMAIN files
    /\ log' = EmptyDir
    /\ UNCHANGED <<cfg, files, buckets, temps, decisions>>
    /\ UNCHANGED <<scoreVars, synthVars>>
    /\ UNCHANGED convertVars

\* move_or_copy_file, its effect on yara-db itself: the file stays put when
\* the mode is silent or copy, and is renamed away otherwise
always_copy_root(root, file_name, copy_mode, silent_mode) == root

move_or_copy_file_root(root, file_name, copy_mode, silent_mode) ==
    IF ~silent_mode /\ ~copy_mode THEN Drop(root, file_name) ELSE root

\* move_or_copy_file, its effect on the sub folders
never_silent_buckets(bs, file_name, text, sub_folder, silent_mode) ==
    [bs EXCEPT ![sub_folder] = Put(@, file_name, text)]

move_or_copy_file_buckets(bs, file_name, text, sub_folder, silent_mode) ==
    IF ~silent_mode THEN [bs EXCEPT ![sub_folder] = Put(@, file_name, text)] ELSE bs

\* fix_yara_rule was not called
NotAsked == [kind |-> "not asked", text |-> MkText(<<>>, NoCondition, {}, <<>>, FALSE)]

\* one iteration of the loop of process_files: the file is read, the branch
\* is chosen (check_rule_syntax may rewrite the file on the way), and the
\* branch calls move_or_copy_file unless it is the last one without a match
ClassifyFile(file_name, response) ==
    /\ file_name \in listing
    /\ LET content == files[file_name]
           d == Classify(content, cfg.YARA_COMPLEXITY_THRESHOLD, cfg.FIX_BAD_RULES, response)
           on_disk == Put(files, file_name, d.check.content)
           called == d.sub_folder # LeftInPlace
       IN  /\ files' = IF called
                       THEN move_or_copy_file_root(on_disk, file_name,
                                                   cfg.COPY_MODE, cfg.SILENT_MODE)
                       ELSE on_disk
           /\ buckets' = IF called
                         THEN move_or_copy_file_buckets(buckets, file_name,
                                  d.check.content, d.sub_folder, cfg.SILENT_MODE)
                         ELSE buckets
           /\ dirs' = IF called /\ ~cfg.SILENT_MODE THEN dirs \cup {d.sub_folder} ELSE dirs
           /\ temps' = temps      \* the temporary file is moved or removed
           /\ log' = Put(log, file_name,
                         [read |-> content, reason |-> d.reason,
                          sub_folder |-> d.sub_folder, check |-> d.check,
                          fixed_content |-> IF d.check.oracle_calls > 0
                                            THEN response ELSE NotAsked,
                          visits |-> IF file_name \in DOMAIN log
                                     THEN log[file_name].visits + 1 ELSE 1])
           /\ decisions' = Put(decisions, file_name,
                               (IF file_name \in DOMAIN decisions
                                THEN decisions[file_name] ELSE 0)
                               + IF called THEN 1 ELSE 0)
    /\ listing' = listing \ {file_name}
    /\ UNCHANGED <<cfg, pass>>
    /\ UNCHANGED <<scoreVars, synthVars>>
    /\ UNCHANGED convertVars

RouteNext ==
    \/ StartPass
    \/ \E file_name \in FileNames, response \in FixResponses :
          ClassifyFile(file_name, response)

SpecRoute == RouteInit /\ [][RouteNext]_vars

----------------------------------------------------------------------------
(* Properties of the classification pass *)

PassComplete == pass >= 1 /\ listing = {}
Moving == ~cfg.COPY_MODE /\ ~cfg.SILENT_MODE

\* C1: the destination of a rule is the one of the first matching condition
\* in the order (1) 0 < score < T, (2) weak indicator, (3) missing CVE,
\* (4) validation failed and not repaired, (5) CVE-YYYY-digits present; a
\* rule with a weak indicator and a missing-CVE marker goes to weak-rules,
\* never to non-cve.
C1_FirstMatchWins ==
    \A f \in DOMAIN log :
        LET r == log[f]
            s == calculate_complexity(r.read)
            c1 == 0 < s /\ s < 4 * cfg.YARA_COMPLEXITY_THRESHOLD
            c2 == r.read.marks \cap WeakIndicators # {}
            c3 == r.read.marks \cap {CveNA, CvePlaceholder} # {}
            c4 == ~r.check.result
            c5 == Len(r.read.cves) > 0
        IN  /\ c1 => r.sub_folder = "weak-rules"
            /\ ~c1 /\ c2 => r.sub_folder = "weak-rules"
            /\ ~c1 /\ ~c2 /\ c3 => r.sub_folder = "non-cve"
            /\ ~c1 /\ ~c2 /\ ~c3 /\ c4 => r.sub_folder = "broken"
            /\ ~c1 /\ ~c2 /\ ~c3 /\ ~c4 /\ c5 => r.sub_folder = "year-" \o r.read.cves[1]
            /\ c2 /\ c3 => r.sub_folder = "weak-rules" /\ r.sub_folder # "non-cve"

\* a rule with a weak indicator and a missing-CVE marker, not weak by score,
\* has been routed
C1_Witness ==
    \E f \in DOMAIN log :
        /\ log[f].read.marks = {"hash.sha256", CveNA}
        /\ log[f].reason = "weak-indicator"
        /\ log[f].sub_folder = "weak-rules"

\* C2: the complexity check routes a rule to weak-rules exactly when
\* 0 < score < T; not at score = T, not at score = 0 (a rule without a
\* condition included), and never when T = 0.
C2_StrictThreshold ==
    \A f \in DOMAIN log :
        LET r == log[f]
            s == calculate_complexity(r.read)
            T == cfg.YARA_COMPLEXITY_THRESHOLD
        IN  /\ (r.reason = "complexity") <=> (0 < s /\ s < 4 * T)
            /\ (T > 0 /\ s = 4 * T) => r.reason # "complexity"
            /\ s = 0 => r.reason # "complexity"
            /\ r.read.condition = NoCondition => r.reason # "complexity"
            /\ T = 0 => r.reason # "complexity"

\* a rule that scores exactly T has been routed, and not by the complexity check
C2_Witness ==
    \E f \in DOMAIN log :
        /\ cfg.YARA_COMPLEXITY_THRESHOLD > 0
        /\ calculate_complexity(log[f].read) = 4 * cfg.YARA_COMPLEXITY_THRESHOLD
        /\ log[f].reason # "complexity"

\* C3, as claimed: in every mode, a rule that a pass has bucketed gets no
\* further move / copy decision in a later pass.
C3_AsClaimed == \A f \in DOMAIN decisions : decisions[f] <= 1

\* C3, amended: when files are moved (COPY_MODE and SILENT_MODE both off), a
\* rule that a pass has bucketed is gone from yara-db and gets no further
\* move / copy decision; in copy mode or silent mode it stays in yara-db.
C3_IdempotentWhenMoving ==
    \A f \in DOMAIN decisions :
        /\ Moving => /\ decisions[f] <= 1
                     /\ decisions[f] = 1 => f \notin DOMAIN files
        /\ ~Moving => f \in DOMAIN files

\* files are moved, a rule was bucketed by the first pass, and the second
\* pass has run
C3_Witness ==
    /\ Moving
    /\ pass = 2
    /\ listing = {}
    /\ decisions["a.yar"] = 1
    /\ "a.yar" \notin DOMAIN files
    /\ "a.yar" \in DOMAIN buckets["year-2019"]

\* C4, as claimed: after a pass every rule file that was in yara-db at its
\* start is in exactly one output bucket, and none was classified twice.
C4_AsClaimed ==
    PassComplete =>
        \A f \in DOMAIN log :
            /\ Cardinality(BucketsOf(f)) = 1
            /\ log[f].visits = 1

\* C4, amended: after a pass no rule was scored or classified twice, and the
\* pass has put each rule file in at most one bucket: in the one of the
\* branch taken when a branch matched and SILENT_MODE is off, in none when
\* no branch matched (validated, no CVE token: left in yara-db) or
\* SILENT_MODE is on.  After the first pass that is the only bucket holding
\* the file.
C4_AtMostOneBucket ==
    PassComplete =>
        \A f \in DOMAIN log :
            LET r == log[f]
                placed == r.sub_folder # LeftInPlace /\ ~cfg.SILENT_MODE
            IN  /\ r.visits = 1
                /\ placed => /\ f \in DOMAIN buckets[r.sub_folder]
                             /\ pass = 1 => BucketsOf(f) = {r.sub_folder}
                /\ ~placed => /\ f \in DOMAIN files
                              /\ pass = 1 => BucketsOf(f) = {}

\* a pass is over that bucketed one rule and left the other, valid and
\* without a CVE token, in place
C4_Witness ==
    /\ PassComplete
    /\ ~cfg.SILENT_MODE
    /\ DOMAIN log = FileNames
    /\ \E f, g \in FileNames :
          /\ log[f].sub_folder = LeftInPlace
          /\ BucketsOf(f) = {}
          /\ BucketsOf(g) = {"weak-rules"}

\* C5: check_rule_syntax calls fix_yara_rule at most once and the YARA binary
\* at most twice, the second time with repair disabled; a rule whose text
\* and fixed text both fail is reported invalid and goes to broken.
C5_RepairBound ==
    \A f \in DOMAIN log :
        LET c == log[f].check
        IN  /\ c.oracle_calls <= 1
            /\ c.validator_calls <= 2
            /\ c.validator_calls = 2 => c.fix_flags[2] = FALSE
            /\ (~log[f].read.ok /\ Len(c.fixed) = 1 /\ ~c.fixed[1].ok)
                   => /\ ~c.result
                      /\ log[f].sub_folder = "broken"

\* a rule failed, was fixed once, and the fixed text failed too
C5_Witness ==
    \E f \in DOMAIN log :
        /\ ~log[f].read.ok
        /\ Len(log[f].check.fixed) = 1
        /\ ~log[f].check.fixed[1].ok
        /\ log[f].check.oracle_calls = 1
        /\ log[f].check.validator_calls = 2
        /\ log[f].sub_folder = "broken"

----------------------------------------------------------------------------
(* calculate_complexity on its own: the rule is drawn, then scored *)

Seqs(S, n) == UNION { [1..k -> S] : k \in 0..n }

\* right-hand sides as they occur in rule files
ByteArraySamples == { ByteArray(20), ByteArray(5),
                      ByteArray(8) \o <<" ", "/", "/", " ", "M", "Z">> }
QuotedSamples == { Quoted(5), Quoted(11),
                   Quoted(6) \o <<" ", "n", "o", "c", "a", "s", "e">> }
OtherSamples == { Bare(7),
                  <<"{", " ", "4", "D", " ", "?", "?", " ", "}">>,   \* { 4D ?? }
                  <<"{", "}", " ", "/", "/">>,                       \* {} //
                  <<"\"", "a", "b", "c", "d">> }                     \* "abcd
ShortSamples == { Bare(4), ByteArray(4), Quoted(3) }

StringSamples == ByteArraySamples \cup QuotedSamples \cup OtherSamples \cup ShortSamples

ConditionSamples == { NoCondition, "any of them", "all of them",
                      "uint16(0) == 0x5A4D and all of them" }

ScoreRules ==
    { MkText(ss, c, {}, <<>>, TRUE) : ss \in Seqs(StringSamples, MaxStrings),
                                      c \in ConditionSamples }

ScoreInit ==
    /\ rule \in ScoreRules
    /\ score = -1
    /\ IdleRoute /\ IdleSynth /\ IdleConvert

ScoreStep ==
    /\ score = -1
    /\ score' = calculate_complexity(rule)
    /\ UNCHANGED <<rule, routeVars, synthVars>>
    /\ UNCHANGED convertVars

ScoreNext == ScoreStep

SpecScore == ScoreInit /\ [][ScoreNext]_vars

\* The formula of the claim, in quarters, over the kinds of the samples.
RECURSIVE SumOver(_, _)
SumOver(I, term) ==
    IF I = {} THEN 0
    ELSE LET i == CHOOSE x \in I : TRUE IN term[i] + SumOver(I \ {i}, term)

FormulaScore(r) ==
    IF r.condition = NoCondition THEN 0
    ELSE LET ss == r.strings
             term == [i \in 1..Len(ss) |->
                        IF Len(ss[i]) < 5 THEN 0
                        ELSE IF ss[i] \in ByteArraySamples THEN 12 * Len(ss[i])
                        ELSE IF ss[i] \in QuotedSamples THEN 4 * Len(ss[i])
                        ELSE 2 * Len(ss[i])]
             sum == SumOver(1..Len(ss), term)
             all_of == r.condition \in {"all of them", "uint16(0) == 0x5A4D and all of them"}
         IN  IF all_of /\ Len(ss) > 1 THEN (3 * sum) \div 2 ELSE sum

\* one byte array of length 20, one short string, condition "all of them"
Example90 == MkText(<<ByteArray(20), Bare(4)>>, "all of them", {}, <<>>, TRUE)

\* C6: calculate_complexity is 0 without a condition, and otherwise the sum
\* of length * weight (3 byte array, 1 quoted, 0.5 other) over the strings of
\* length >= 5, times 1.5 when the condition has 'all of' and there is more
\* than one string, short ones counted; the example scores 90; never negative.
C6_ScoreFormula ==
    score # -1 =>
        /\ score = FormulaScore(rule)
        /\ score >= 0
        /\ rule = Example90 => score = 4 * 90

\* the example of the claim has been scored, and scored 90
C6_Witness == rule = Example90 /\ score = 360

----------------------------------------------------------------------------
(* generate_regex.py: configuration and the pure functions *)

STRING_SIMILARITY_THRESHOLD_x10 == 7     \* 0.7
MIN_CLUSTER_SIZE == 10
SMALL_STRING_MAX_LEN == 20
MEDIUM_STRING_MAX_LEN == 100
MAX_REGEXES_PER_RULE == 10
MAX_REGEX_LENGTH == 150
MIN_REGEX_LENGTH == 20
MAX_NESTED_QUANTIFIERS == 3
MAX_ADVANCED_CONSTRUCTS == 2
MAX_ESCAPED_CHARACTERS == 10
MAX_CLASSES_ALTERNATION == 20

Min2(a, b) == IF a < b THEN a ELSE b

\* s has sub at position i
HasAt(s, i, sub) ==
    /\ i + Len(sub) - 1 <= Len(s)
    /\ \A k \in 1..Len(sub) : s[i + k - 1] = sub[k]

Contains(s, sub) == \E i \in 1..Len(s) : HasAt(s, i, sub)

TrashStrings ==
    { <<"i", "n", "t", "e", "r", "e", "s", "t", "i", "n", "g", " ",
        "s", "t", "r", "i", "n", "g">>,
      <<"I", "N", "S", "E", "R", "T", " ", "I", "N", "T", "E", "R", "E", "S", "T",
        "I", "N", "G", " ", "S", "T", "R", "I", "N", "G">>,
      <<"s", "h", "e", "l", "l", "c", "o", "d", "e", " ", "b", "y", "t", "e", "s">> }

is_unacceptable_string(str) == \E condition \in TrashStrings : Contains(str, condition)

categorize_string_length(string) ==
    IF Len(string) <= SMALL_STRING_MAX_LEN THEN "short"
    ELSE IF Len(string) <= MEDIUM_STRING_MAX_LEN THEN "medium"
    ELSE "long"

SetMin(S) == CHOOSE x \in S : \A y \in S : x <= y

\* Levenshtein.ratio(a, b) = (lensum - ldist) / lensum, ldist the edit distance
\* in which a substitution costs 2; 1.0 for two empty strings.
\* Row i of the distance table from row i - 1, cells 0 .. Len(b) held at
\* 1 .. Len(b) + 1: a cell is reached from above or from the diagonal and
\* then by insertions along the row.
DistanceRow(a, b, i, prev) ==
    LET n == Len(b)
        entry == SubSeq([k \in 1..(n + 1) |->
                           IF k = 1 THEN i
                           ELSE Min2(prev[k - 1] + IF a[i] = b[k - 1] THEN 0 ELSE 2,
                                     prev[k] + 1)], 1, n + 1)
    IN  SubSeq([j \in 1..(n + 1) |-> SetMin({entry[k] + (j - k) : k \in 1..j})], 1, n + 1)

RECURSIVE DistanceRows(_, _, _, _)
DistanceRows(a, b, i, prev) ==
    IF i > Len(a) THEN prev[Len(b) + 1]
    ELSE LET row == DistanceRow(a, b, i, prev)
         IN  IF Len(row) = Len(prev) THEN DistanceRows(a, b, i + 1, row) ELSE -1

Distance(a, b) ==
    IF a = b THEN 0
    ELSE DistanceRows(a, b, 1, SubSeq([j \in 1..(Len(b) + 1) |-> j - 1], 1, Len(b) + 1))

\* calculate_similarity(str1, str2) >= STRING_SIMILARITY_THRESHOLD, strictly
\* calculate_similarity(str1, str2) >= STRING_SIMILARITY_THRESHOLD
Similar(str1, str2) ==
    LET lensum == Len(str1) + Len(str2)
    IN  lensum = 0 \/
        10 * (lensum - Distance(str1, str2)) >= STRING_SIMILARITY_THRESHOLD_x10 * lensum

Digits == {"0", "1", "2", "3", "4", "5", "6", "7", "8", "9"}

\* len(re.findall(r'\*|\+|\?|\{[\d,]+\}', regex)): the matches cannot
\* overlap, so each is counted where it starts
CountQuantifiers(regex) ==
    Cardinality({i \in 1..Len(regex) : regex[i] \in {"*", "+", "?"}})
    + Cardinality({i \in 1..Len(regex) :
         /\ regex[i] = "{"
         /\ \E j \in (i + 2)..Len(regex) :
               /\ regex[j] = "}"
               /\ \A m \in (i + 1)..(j - 1) : regex[m] \in Digits \cup {","}})

\* len(re.findall(opener .*? closer, regex)): the dot does not match a line
\* feed, and an opener inside a match is consumed by it, so the matches are
\* counted by the closers that end one
CountLazy(regex, opener, closer) ==
    Cardinality({j \in 1..Len(regex) :
        /\ regex[j] = closer
        /\ \E i \in 1..(j - 1) :
              /\ HasAt(regex, i, opener)
              /\ i + Len(opener) <= j
              /\ \A m \in (i + Len(opener))..(j - 1) : regex[m] \notin {closer, "\n"}})

\* len(re.findall(r'\\.', regex)): in a run of backslashes every second one
\* is consumed as the escaped character
CountEscapes(regex) ==
    Cardinality({i \in 1..Len(regex) :
        /\ regex[i] = "\\"
        /\ i + 1 <= Len(regex)
        /\ regex[i + 1] # "\n"
        /\ Cardinality({j \in 1..(i - 1) : \A m \in j..(i - 1) : regex[m] = "\\"}) % 2 = 0})

CountChar(regex, c) == Cardinality({i \in 1..Len(regex) : regex[i] = c})

advanced_constructs ==
    { <<"(", "?", "=">>, <<"(", "?", "!">>, <<"(", "?", "<", "=">>,
      <<"(", "?", "<", "!">>, <<"(", "?", ":">> }

\* the length check with the two comparisons made inclusive
LengthOutOfBoundsInclusive(regex) ==
    Len(regex) >= MAX_REGEX_LENGTH \/ Len(regex) <= MIN_REGEX_LENGTH

LengthOutOfBounds(regex) ==
    Len(regex) > MAX_REGEX_LENGTH \/ Len(regex) < MIN_REGEX_LENGTH

is_regex_too_complex(regex) ==
    \/ LengthOutOfBounds(regex)
    \/ CountQuantifiers(regex) > MAX_NESTED_QUANTIFIERS
    \/ \E construct \in advanced_constructs :
          CountLazy(regex, construct, ")") > MAX_ADVANCED_CONSTRUCTS
    \/ CountEscapes(regex) > MAX_ESCAPED_CHARACTERS
    \/ CountLazy(regex, <<"[">>, "]") + CountChar(regex, "|") > MAX_CLASSES_ALTERNATION

----------------------------------------------------------------------------
(* generate_regex.process_yara_files: clustering *)

Categories == <<"short", "medium", "long">>     \* the order of the clusters dict

\* the cluster the string is appended to without the break: the last match
JoinLastMatch(string, group) ==
    LET hits == {i \in 1..Len(group) : Similar(string, group[i].key)}
    IN  IF hits = {} THEN 0 ELSE CHOOSE i \in hits : \A k \in hits : k <= i

\* the position, in creation order, of the cluster the string is appended
\* to: the first whose key is similar enough; 0 when there is none
JoinIndex(string, group) ==
    LET hits == {i \in 1..Len(group) : Similar(string, group[i].key)}
    IN  IF hits = {} THEN 0 ELSE SetMin(hits)

\* lines 164-177 for one string: acc.clusters is the clusters dict, acc.joins
\* lists what was done with each string of the file
AddString(acc, string) ==
    IF is_unacceptable_string(string)
    THEN [acc EXCEPT !.joins = Append(@, [string |-> string, skipped |-> TRUE,
                                         category |-> "", keys |-> <<>>, joined |-> 0])]
    ELSE LET length_category == categorize_string_length(string)
             group == acc.clusters[length_category]
             i == JoinIndex(string, group)
             note == [string |-> string, skipped |-> FALSE,
                      category |-> length_category,
                      keys |-> [k \in 1..Len(group) |-> group[k].key], joined |-> i]
         IN  [clusters |->
                 IF i > 0
                 THEN [acc.clusters EXCEPT ![length_category][i].members = Append(@, string)]
                 ELSE [acc.clusters EXCEPT ![length_category] =
                          Append(@, [key |-> string, members |-> <<string>>])],
              joins |-> Append(acc.joins, note)]

RECURSIVE AddStrings(_, _, _)
AddStrings(acc, strings, i) ==
    IF i > Len(strings) THEN acc
    ELSE LET next == AddString(acc, strings[i])
         IN  IF Len(next.joins) = i THEN AddStrings(next, strings, i + 1) ELSE acc

\* the clusters in the order the two for loops of lines 180-181 visit them
Positions(cl) ==
    [k \in 1..Len(cl.short) |-> <<"short", k>>]
    \o [k \in 1..Len(cl.medium) |-> <<"medium", k>>]
    \o [k \in 1..Len(cl.long) |-> <<"long", k>>]

----------------------------------------------------------------------------
(* generate_regex.process_yara_files: the pass *)

NoRegex == [kind |-> "none", text |-> <<>>]
Regex(text) == [kind |-> "regex", text |-> text]

\* if regex: neither None nor an empty string
Truthy(regex) == regex.kind = "regex" /\ Len(regex.text) > 0

ReachedMinimumStrict(cluster) == Len(cluster) > MIN_CLUSTER_SIZE

\* len(cluster) >= MIN_CLUSTER_SIZE
ReachedMinimum(cluster) == Len(cluster) >= MIN_CLUSTER_SIZE

BatchFullLate(patterns) == Len(patterns) > MAX_REGEXES_PER_RULE

\* len(regex_patterns) >= MAX_REGEXES_PER_RULE
BatchFull(patterns) == Len(patterns) >= MAX_REGEXES_PER_RULE

\* what the request that revises the master rule can come to
Revisions == {"choices", "no choices", "raises"}

EmptyClusters == [short |-> <<>>, medium |-> <<>>, long |-> <<>>]
\* failed: the clusters whose present members went into a request that came
\* back without a pattern
EmptyHist == [joins |-> <<>>, requests |-> <<>>, requested |-> 0, flushes |-> <<>>,
              failed |-> {}]

SynthInitOf(c) ==
    /\ corpus = c
    /\ idx = 0
    /\ pc = "read"
    /\ clusters = EmptyClusters
    /\ regex_patterns = <<>>
    /\ master_rule_seq = 1
    /\ todo = <<>>
    /\ emitted = <<>>
    /\ hist = EmptyHist

\* a file that open() or read() raises on (no permission, bytes that do not
\* decode), in place of the list of its strings
Unreadable == << <<"<unreadable>">> >>

\* lines 155-177: the next file of the walk is read and its strings
\* clustered; an exception of open() or read() is not caught
ReadFile ==
    /\ pc = "read"
    /\ idx < Len(corpus.files)
    /\ IF corpus.files[idx + 1] = Unreadable
       THEN /\ pc' = "read failed"
            /\ UNCHANGED <<clusters, todo, hist>>
       ELSE LET acc == AddStrings([clusters |-> clusters, joins |-> <<>>],
                                  corpus.files[idx + 1], 1)
            IN  /\ clusters' = acc.clusters
                /\ todo' = Positions(acc.clusters)
                /\ pc' = IF Positions(acc.clusters) = <<>> THEN "read" ELSE "inspect"
                /\ hist' = [hist EXCEPT !.joins = acc.joins, !.requests = <<>>]
    /\ idx' = idx + 1
    /\ UNCHANGED <<corpus, regex_patterns, master_rule_seq, emitted>>
    /\ UNCHANGED <<scoreVars, routeVars>>
    /\ UNCHANGED convertVars

\* the seconds the clock can show
Times == 1..MaxTime

\* the clock does not run backwards: the second of the latest file written
LastStamp ==
    IF emitted = <<>> THEN 1 ELSE emitted[Len(emitted)].timestamp

\* f"master_regex_rule_{timestamp}_{master_rule_seq}.yar"
MasterName(timestamp, seq) ==
    "master_regex_rule_" \o ToString(timestamp) \o "_" \o ToString(seq) \o ".yar"

\* the revised rule as the oracle hands it back: the patterns of the draft
\* between slashes, "any of them"
MasterText(patterns) ==
    MkText([n \in 1..Len(patterns) |-> <<"/">> \o patterns[n] \o <<"/">>],
           "any of them", {}, <<>>, TRUE)

\* lines 181-234: one iteration of the loop over the clusters.  regex is what
\* generate_regex_for_cluster returns if it is called, revision what the
\* request of lines 219-223 comes to if it is made, timestamp what the clock
\* shows at line 199 if it is read.
InspectCluster(regex, revision, timestamp) ==
    /\ pc = "inspect"
    /\ timestamp >= LastStamp
    /\ LET length_category == Head(todo)[1]
           k == Head(todo)[2]
           cluster == clusters[length_category][k].members
           asked == ReachedMinimum(cluster)
           accepted == asked /\ Truthy(regex) /\ ~is_regex_too_complex(regex.text)
           patterns == IF accepted THEN Append(regex_patterns, regex.text)
                       ELSE regex_patterns
           flush == BatchFull(patterns)
           request == [file |-> idx, category |-> length_category,
                       key |-> clusters[length_category][k].key,
                       size |-> Len(cluster), regex |-> regex, appended |-> accepted,
                       retry |-> Head(todo) \in hist.failed]
           note == [patterns |-> patterns, seq |-> master_rule_seq, revision |-> revision,
                    files |-> IF revision = "choices" THEN 1 ELSE 0]
       IN  /\ clusters' = IF asked /\ Truthy(regex)
                          THEN [clusters EXCEPT ![length_category][k].members = <<>>]
                          ELSE clusters
           /\ hist' = [hist EXCEPT
                         !.requests = IF asked THEN Append(@, request) ELSE @,
                         !.requested = IF asked THEN @ + 1 ELSE @,
                         !.flushes = IF flush THEN Append(@, note) ELSE @,
                         !.failed = IF asked /\ ~Truthy(regex) THEN @ \cup {Head(todo)}
                                    ELSE IF asked THEN @ \ {Head(todo)} ELSE @]
           /\ IF flush /\ revision = "raises"
              THEN /\ pc' = "aborted"
                   /\ regex_patterns' = patterns
                   /\ UNCHANGED <<master_rule_seq, emitted, todo, files>>
              ELSE /\ pc' = IF Len(todo) = 1 THEN "read" ELSE "inspect"
                   /\ todo' = Tail(todo)
                   /\ regex_patterns' = IF flush THEN <<>> ELSE patterns
                   /\ master_rule_seq' = IF flush THEN master_rule_seq + 1
                                         ELSE master_rule_seq
                   /\ emitted' = IF flush /\ revision = "choices"
                                 THEN Append(emitted,
                                        [seq |-> master_rule_seq,
                                         timestamp |-> timestamp,
                                         name |-> MasterName(timestamp, master_rule_seq),
                                         draft |-> patterns,
                                         content |-> "revised_rule"])
                                 ELSE emitted
                   \* open(master_rule_path, 'w') in YARA_FOLDER itself
                   /\ files' = IF flush /\ revision = "choices"
                               THEN Put(files, MasterName(timestamp, master_rule_seq),
                                        MasterText(patterns))
                               ELSE files
    /\ UNCHANGED <<corpus, idx>>
    /\ UNCHANGED <<scoreVars, cfg, buckets, dirs, temps, listing, pass, log, decisions>>
    /\ UNCHANGED convertVars

\* lines 236-238: the walk is over
Finish ==
    /\ pc = "read"
    /\ idx = Len(corpus.files)
    /\ pc' = "done"
    /\ UNCHANGED <<corpus, idx, clusters, regex_patterns, master_rule_seq,
                   todo, emitted, hist>>
    /\ UNCHANGED <<scoreVars, routeVars>>
    /\ UNCHANGED convertVars

----------------------------------------------------------------------------
(* The corpora of the synthesis pass *)

K1 == Rep("a", 10)
K2 == Rep("a", 6) \o Rep("b", 4)      \* ratio 0.6 to K1
X  == Rep("a", 7) \o Rep("b", 3)      \* ratio 0.7 to K1, 0.9 to K2
Y  == Rep("c", 10)                    \* ratio 0 to the others
Placeholder ==
    <<"\"">> \o <<"s", "h", "e", "l", "l", "c", "o", "d", "e", " ",
                  "b", "y", "t", "e", "s">> \o <<"\"">>
M  == Quoted(30)
M2 == <<"\"">> \o Rep("x", 27) \o <<"y", "\"">>    \* M with one character changed
L  == Rep("l", 101)

\* what generate_regex_for_cluster can return
Plain(n) == Rep("a", n)
ThreeQuantifiers == <<"a", "*", "b", "+", "c", "?">> \o Rep("d", 14)
FourQuantifiers == <<"a", "*", "b", "+", "c", "?", "d", "{", "2", ",", "3", "}">> \o Rep("e", 12)
GateAnswers ==
    { NoRegex, Regex(<<>>),
      Regex(Plain(MIN_REGEX_LENGTH - 1)), Regex(Plain(MIN_REGEX_LENGTH)),
      Regex(Plain(MAX_REGEX_LENGTH)), Regex(Plain(MAX_REGEX_LENGTH + 1)),
      Regex(ThreeQuantifiers), Regex(FourQuantifiers) }
BatchAnswers == { NoRegex, Regex(Plain(MIN_REGEX_LENGTH - 1)), Regex(Plain(MIN_REGEX_LENGTH)) }

SmallFiles == { <<>>, <<K1>>, <<K2>>, <<X>>, <<X, K2, X>>, <<Y, Placeholder>>, <<M, L>> }

\* n strings, M and M2 in turn
Alternating(n) == [i \in 1..n |-> IF i % 2 = 1 THEN M ELSE M2]

\* SingleFiles files of one near-identical 30-character quoted string each
Singles == [files |-> [i \in 1..SingleFiles |-> <<Alternating(2)[1 + (i % 2)]>>],
            answers |-> GateAnswers]

\* a first file of n strings, then one-string files
HeadOf(n) == [files |-> <<Alternating(n), <<M>>, <<M2>>>>, answers |-> GateAnswers]

\* every file brings ten members to each of two clusters
BatchCorpus == [files |-> [i \in 1..BatchFiles |-> Rep(K1, 10) \o Rep(M, 10)],
                answers |-> BatchAnswers]

\* three one-string files, the n-th of them unreadable
Faulty(n) == [files |-> [i \in 1..3 |-> IF i = n THEN Unreadable ELSE <<K1>>],
              answers |-> {NoRegex}]

Corpora ==
    { [files |-> fs, answers |-> {NoRegex}] : fs \in Seqs(SmallFiles, MaxFiles) }
    \cup { Singles, BatchCorpus }
    \cup { Faulty(n) : n \in 1..3 }
    \cup { HeadOf(n) : n \in {9, 10, 12} }

SynthInit ==
    /\ \E c \in Corpora : SynthInitOf(c)
    /\ IdleScore /\ IdleRoute /\ IdleConvert

SynthNext ==
    \/ ReadFile
    \/ \E regex \in corpus.answers, revision \in Revisions, timestamp \in Times :
          InspectCluster(regex, revision, timestamp)
    \/ Finish

SpecSynth == SynthInit /\ [][SynthNext]_vars

----------------------------------------------------------------------------
(* Runs of validate_yara and of generate_regex, one after another, over the *)
(* same yara-db folder                                                       *)

\* fifty right-hand sides: ten copies each of five strings unlike one another
Fifty(letters) == [n \in 1..50 |-> Rep(letters[1 + ((n - 1) \div 10)], 5)]

\* yara-db as found: a rule with a CVE token and one without
EngineFolder ==
    [n \in FileNames |->
        IF n = "a.yar"
        THEN MkText(Fifty(<<"a", "c", "e", "g", "i">>), "any of them", {}, <<"2019">>, TRUE)
        ELSE MkText(Fifty(<<"k", "m", "o", "q", "s">>), "any of them", {}, <<>>, TRUE)]

EngineConfigs ==
    {c \in Configs : c.FIX_BAD_RULES /\ c.YARA_COMPLEXITY_THRESHOLD > 0}

NoCorpus == [files |-> <<>>, answers |-> {}, paths |-> <<>>, walk |-> 0]

EngineInit ==
    /\ cfg \in EngineConfigs
    /\ files = EngineFolder
    /\ buckets = [b \in BucketNames |-> EmptyDir]
    /\ dirs = {}
    /\ temps = 0
    /\ listing = {}
    /\ pass = 0
    /\ log = EmptyDir
    /\ decisions = [n \in FileNames |-> 0]
    /\ corpus = NoCorpus
    /\ idx = 0
    /\ pc = "idle"
    /\ clusters = EmptyClusters
    /\ regex_patterns = <<>>
    /\ master_rule_seq = 1
    /\ todo = <<>>
    /\ emitted = <<>>
    /\ hist = EmptyHist
    /\ IdleScore /\ IdleConvert

Root == "."

\* the names of a directory in the order it lists them (one order is taken)
RECURSIVE Listed(_)
Listed(S) ==
    IF S = {} THEN <<>>
    ELSE LET n == CHOOSE x \in S : TRUE IN <<n>> \o Listed(S \ {n})

RECURSIVE InFolders(_)
InFolders(ds) ==
    IF ds = <<>> THEN <<>>
    ELSE LET names == Listed(DOMAIN buckets[Head(ds)])
         IN  [n \in 1..Len(names) |-> [folder |-> Head(ds), name |-> names[n]]]
             \o InFolders(Tail(ds))

\* os.walk(YARA_FOLDER): the .yar files of yara-db itself, then those of
\* every sub folder
WalkPaths ==
    LET names == Listed(DOMAIN files)
    IN  [n \in 1..Len(names) |-> [folder |-> Root, name |-> names[n]]]
        \o InFolders(Listed(BucketNames))

TextAt(path) ==
    IF path.folder = Root THEN files[path.name] ELSE buckets[path.folder][path.name]

Running == pc \in {"read", "inspect"}

\* generate_regex is started: lines 148-150, and what the walk will find
StartWalk ==
    /\ ~Running
    /\ listing = {}
    /\ corpus.walk < MaxWalks
    /\ corpus' = [files |-> [n \in 1..Len(WalkPaths) |-> TextAt(WalkPaths[n]).strings],
                  answers |-> {Regex(Plain(MIN_REGEX_LENGTH))},
                  paths |-> WalkPaths,
                  walk |-> corpus.walk + 1]
    /\ idx' = 0
    /\ pc' = "read"
    /\ clusters' = EmptyClusters
    /\ regex_patterns' = <<>>
    /\ master_rule_seq' = 1
    /\ todo' = <<>>
    /\ hist' = EmptyHist
    /\ UNCHANGED <<emitted, scoreVars, routeVars>>
    /\ UNCHANGED convertVars

EngineNext ==
    \/ ~Running /\ StartPass
    \/ \E file_name \in DOMAIN files, response \in {r \in FixResponses : r.kind = "none"} :
          ClassifyFile(file_name, response)
    \/ StartWalk
    \/ ReadFile
    \/ \E regex \in corpus.answers, revision \in Revisions, timestamp \in Times :
          InspectCluster(regex, revision, timestamp)
    \/ Finish

SpecEngine == EngineInit /\ [][EngineNext]_vars

----------------------------------------------------------------------------
(* convert_yara.py: one rule file per downloaded sample *)

MaxSamples == 2      \* sample files of the download folder
MAX_QUERIES_PER_RUN == 15000

Identifier == "exploit"
\* a sample as the loop tells samples apart: a text, an empty file, a file
\* that cannot be opened or decoded, a file at or over the size limit, a
\* file whose name does not match FILE_PATTERN
SampleKinds == {"text", "empty", "unreadable", "large", "unmatched"}
Samples == [number : 1..MaxSamples, kind : SampleKinds]

\* glob.glob: the sample files in any order, no name twice
Globs ==
    { s \in UNION { [1..n -> Samples] : n \in 0..MaxSamples } :
        \A i, j \in DOMAIN s : i # j => s[i].number # s[j].number }

RECURSIVE Insert(_, _)
Insert(sample, sorted) ==
    IF sorted = <<>> THEN <<sample>>
    ELSE IF sample.number > Head(sorted).number THEN <<sample>> \o sorted
    ELSE <<Head(sorted)>> \o Insert(sample, Tail(sorted))

\* file_paths.sort(key=number, reverse=True)
RECURSIVE SortByNumber(_)
SortByNumber(paths) ==
    IF paths = <<>> THEN <<>>
    ELSE Insert(Head(paths), SortByNumber(Tail(paths)))

OutputName(sample) ==
    "yara_" \o Identifier \o "_" \o ToString(sample.number) \o ".yar"

RuleText == MkText(StrongShape.strings, StrongShape.condition, {}, <<"2021">>, TRUE)
NoText == MkText(<<>>, NoCondition, {}, <<>>, FALSE)

\* message.content of the first choice: the marks of the prose before the
\* first "rule ", whether "rule " and "}" are found, and the text from
\* "rule " to the last "}" (the whole text when they are not found)
MessageContents ==
    { [found |-> TRUE, head |-> {}, text |-> RuleText],
      [found |-> TRUE, head |-> {"No suitable response"}, text |-> RuleText],
      [found |-> TRUE, head |-> {},
       text |-> MkText(StrongShape.strings, StrongShape.condition,
                       {"$string1"}, <<>>, FALSE)],
      [found |-> FALSE, head |-> {"CHANGE_ME"}, text |-> NoText] }
NoContent == [found |-> FALSE, head |-> {}, text |-> NoText]

\* str(e) of an exception of the oracle call, by the searched substrings it
\* holds: a timeout or connection error, or an error that quotes the request
ExceptionMessages == { {}, {"CHANGE_ME"} }

\* what client.chat.completions.create can do
CreateOutcomes ==
    { [kind |-> "choices", content |-> c, message |-> {}] : c \in MessageContents }
    \cup { [kind |-> "no choices", content |-> NoContent, message |-> {}] }
    \cup { [kind |-> "raises", content |-> NoContent, message |-> e] :
             e \in ExceptionMessages }

extract_yara_rule(response_text) ==
    IF response_text.found THEN response_text.text
    ELSE MkText(response_text.text.strings, response_text.text.condition,
                response_text.text.marks \cup response_text.head,
                response_text.text.cves, response_text.text.ok)

create_yara_rule(outcome) ==
    CASE outcome.kind = "choices" -> extract_yara_rule(outcome.content)
      [] outcome.kind = "no choices" ->
            MkText(<<>>, NoCondition, {"No suitable response"}, <<>>, FALSE)
      [] outcome.kind = "raises" ->
            MkText(<<>>, NoCondition,
                   {"Error generating YARA rule"} \cup outcome.message, <<>>, FALSE)

ConvertInit ==
    /\ file_paths \in Globs
    /\ position = 0
    /\ query_count = 0
    /\ stage = "start"
    /\ converted = <<>>
    /\ files \in {EmptyDir, [n \in {"yara_exploit_1.yar"} |-> RuleText]}
    /\ cfg = [COPY_MODE |-> TRUE, SILENT_MODE |-> TRUE, FIX_BAD_RULES |-> TRUE,
              YARA_COMPLEXITY_THRESHOLD |-> YARA_COMPLEXITY_THRESHOLD]
    /\ buckets = [b \in BucketNames |-> EmptyDir]
    /\ dirs = {}
    /\ temps = 0
    /\ listing = {}
    /\ pass = 0
    /\ log = EmptyDir
    /\ decisions = EmptyDir
    /\ IdleScore /\ IdleSynth

\* main up to the loop: the sort raises on a name that does not match
StartConvert ==
    /\ stage = "start"
    /\ IF \E i \in DOMAIN file_paths : file_paths[i].kind = "unmatched"
       THEN /\ stage' = "crashed"
            /\ UNCHANGED <<file_paths, position>>
       ELSE /\ file_paths' = SortByNumber(file_paths)
            /\ IF Len(file_paths) = 0
               THEN stage' = "done" /\ position' = 0
               ELSE stage' = "loop" /\ position' = 1
    /\ query_count' = 0
    /\ UNCHANGED <<converted, scoreVars, routeVars, synthVars>>

\* the body of the loop for one sample
ConvertSample(outcome) ==
    /\ stage = "loop"
    /\ LET file_path == file_paths[position]
           output_file_name == OutputName(file_path)
           skipped == \/ file_path.kind = "unmatched"
                      \/ output_file_name \in DOMAIN files
                      \/ file_path.kind \in {"large", "unreadable", "empty"}
           yara_rule == create_yara_rule(outcome)
           unacceptable == is_unacceptable_yara_rule_response(yara_rule)
           count == IF skipped THEN query_count ELSE query_count + 1
       IN  /\ files' = IF ~skipped /\ ~unacceptable
                       THEN Put(files, output_file_name, yara_rule)
                       ELSE files
           /\ converted' =
                Append(converted,
                       [number |-> file_path.number,
                        output_file_name |-> output_file_name,
                        asked |-> ~skipped,
                        outcome |-> IF skipped THEN "skipped" ELSE outcome.kind,
                        yara_rule |-> IF skipped THEN NoText ELSE yara_rule,
                        unacceptable |-> ~skipped /\ unacceptable,
                        written |-> ~skipped /\ ~unacceptable])
           /\ query_count' = count
           /\ IF (~skipped /\ count >= MAX_QUERIES_PER_RUN)
                 \/ position = Len(file_paths)
              THEN stage' = "done" /\ position' = position
              ELSE stage' = "loop" /\ position' = position + 1
    /\ UNCHANGED <<file_paths, scoreVars, synthVars>>
    /\ UNCHANGED <<cfg, buckets, dirs, temps, listing, pass, log, decisions>>

ConvertNext ==
    \/ StartConvert
    \/ \E outcome \in CreateOutcomes : ConvertSample(outcome)

SpecConvert == ConvertInit /\ [][ConvertNext]_vars

----------------------------------------------------------------------------
(* Properties of the synthesis pass *)

Group(c) == clusters[c]
AllPositions == Positions(clusters)
Count(S) == Cardinality(S)
Flushes == hist.flushes

\* C7: a string that is not on the denylist is appended to the first cluster
\* of its length category, in creation order, whose key has ratio >= 0.7 to
\* it (0.7 itself joins, less does not), even when a later key is more
\* similar; when no key qualifies a new cluster keyed by the string, with
\* the string as only member, is created.
C7_GreedyFirstMatch ==
    /\ \A n \in 1..Len(hist.joins) :
          LET note == hist.joins[n]
              s == note.string
              hits == {i \in 1..Len(note.keys) :
                          10 * (Len(s) + Len(note.keys[i]) - Distance(s, note.keys[i]))
                             >= 7 * (Len(s) + Len(note.keys[i]))}
          IN  ~note.skipped =>
                /\ note.category = categorize_string_length(s)
                /\ hits = {} => note.joined = 0
                /\ hits # {} => note.joined \in hits /\ \A i \in hits : note.joined <= i
                /\ (s = X /\ note.keys = <<K1, K2>>) => note.joined = 1
                /\ (s = K2 /\ note.keys = <<K1>>) => note.joined = 0
    \* the clusters right after a file was read show the last string of it
    /\ (hist.joins # <<>> /\ hist.requests = <<>> /\ todo = AllPositions) =>
          LET note == hist.joins[Len(hist.joins)]
              group == Group(note.category)
          IN  ~note.skipped =>
                IF note.joined = 0
                THEN /\ Len(group) = Len(note.keys) + 1
                     /\ group[Len(group)] = [key |-> note.string,
                                            members |-> <<note.string>>]
                ELSE /\ Len(group) = Len(note.keys)
                     /\ group[note.joined].key = note.keys[note.joined]
                     /\ group[note.joined].members # <<>>
                     /\ group[note.joined].members[Len(group[note.joined].members)]
                           = note.string

\* X, at ratio exactly 0.7 to the first key and 0.9 to the second, has joined
\* the first cluster
C7_Witness ==
    /\ hist.joins # <<>>
    /\ hist.joins[1].string = X
    /\ hist.joins[1].keys = <<K1, K2>>
    /\ hist.joins[1].joined = 1
    /\ clusters.short = << [key |-> K1, members |-> <<K1, X>>],
                           [key |-> K2, members |-> <<K2>>] >>

\* C8: without another violation a pattern of length MIN_REGEX_LENGTH - 1 or
\* MAX_REGEX_LENGTH + 1 is rejected and one of length MIN_REGEX_LENGTH or
\* MAX_REGEX_LENGTH is accepted; a rejected pattern is never in the batch.
C8_LengthGate ==
    /\ \A n \in 1..Len(hist.requests) :
          LET r == hist.requests[n]
          IN  /\ (r.regex.kind = "regex" /\ Len(r.regex.text) \in {19, 151}) => ~r.appended
              /\ r.regex.text \in {Rep("a", 20), Rep("a", 150)} => r.appended
              /\ r.appended => Len(r.regex.text) \in 20..150
    /\ \A n \in 1..Len(regex_patterns) : Len(regex_patterns[n]) \in 20..150
    /\ \A n \in 1..Len(emitted) :
          \A m \in 1..Len(emitted[n].draft) : Len(emitted[n].draft[m]) \in 20..150

\* a pattern of length MIN_REGEX_LENGTH was answered, accepted and is the batch
C8_Witness ==
    /\ hist.requests # <<>>
    /\ hist.requests[1].regex = Regex(Rep("a", 20))
    /\ hist.requests[1].appended
    /\ regex_patterns = <<Rep("a", 20)>>

\* C9, as claimed: every time the batch reaches MAX_REGEXES_PER_RULE exactly
\* one master rule file is emitted, the batch is emptied and the sequence
\* counter goes up by one.
C9_AsClaimed ==
    /\ \A n \in 1..Len(Flushes) : Flushes[n].files = 1
    /\ Len(emitted) = Len(Flushes)
    /\ Len(regex_patterns) < MAX_REGEXES_PER_RULE
    /\ master_rule_seq = 1 + Len(Flushes)

\* C9, amended: when accepting a candidate brings the batch to
\* MAX_REGEXES_PER_RULE, the revision of a draft of exactly those patterns is
\* requested in the same iteration, before another candidate is accepted.
\* With a choice in the answer exactly one master rule file is written, with
\* no choices none; either way the batch is then empty and the counter one
\* higher.  If the request raises, the pass ends there: no file, the batch
\* still full, the counter unchanged.
C9_FlushOnce ==
    /\ pc # "aborted" => Len(regex_patterns) < MAX_REGEXES_PER_RULE
    /\ \A n \in 1..Len(Flushes) :
          /\ Len(Flushes[n].patterns) = MAX_REGEXES_PER_RULE
          /\ Flushes[n].seq = n
          /\ Flushes[n].revision = "raises" => n = Len(Flushes) /\ pc = "aborted"
    /\ master_rule_seq = 1 + Count({n \in 1..Len(Flushes) : Flushes[n].revision # "raises"})
    /\ Len(emitted) = Count({n \in 1..Len(Flushes) : Flushes[n].revision = "choices"})
    /\ \A m \in 1..Len(emitted) :
          \E n \in 1..Len(Flushes) :
             /\ Flushes[n].revision = "choices"
             /\ emitted[m].seq = Flushes[n].seq
             /\ emitted[m].draft = Flushes[n].patterns
    /\ pc = "aborted" =>
          /\ Flushes # <<>>
          /\ Flushes[Len(Flushes)].revision = "raises"
          /\ regex_patterns = Flushes[Len(Flushes)].patterns
    /\ (pc # "aborted" /\ Flushes # <<>> /\ hist.requests # <<>>
           /\ hist.requests[Len(hist.requests)].appended
           /\ hist.requested = MAX_REGEXES_PER_RULE) => regex_patterns = <<>>

\* the tenth candidate was accepted and one master rule file was written
C9_Witness ==
    /\ Len(Flushes) = 1
    /\ Flushes[1].revision = "choices"
    /\ Len(emitted) = 1
    /\ Len(emitted[1].draft) = MAX_REGEXES_PER_RULE
    /\ regex_patterns = <<>>
    /\ master_rule_seq = 2

\* C10: synthesis for a cluster is requested at the end of the first file
\* after which it has MIN_CLUSTER_SIZE members or more, and not at a later
\* one; with one qualifying string per file that is right after the tenth.
\* (Stated of a pass up to its end or its abort.)
C10_TriggerTiming ==
    /\ \A n \in 1..Len(hist.requests) :
          /\ hist.requests[n].size >= 10
          /\ hist.requests[n].file = idx
    /\ pc \in {"read", "done"} =>
          \A p \in {AllPositions[n] : n \in 1..Len(AllPositions)} :
             Len(Group(p[1])[p[2]].members) >= 10 =>
                \E n \in 1..Len(hist.requests) :
                   /\ hist.requests[n].category = p[1]
                   /\ hist.requests[n].key = Group(p[1])[p[2]].key
                   /\ hist.requests[n].file = idx
    /\ corpus = Singles =>
          /\ idx < 10 => hist.requested = 0
          /\ (idx = 10 /\ pc = "read") => hist.requested = 1
          /\ (idx >= 10 /\ pc \in {"read", "done"}) => hist.requested >= 1

\* the tenth one-string file was read and synthesis requested for its cluster
C10_Witness ==
    /\ corpus = Singles
    /\ idx = 10
    /\ pc = "read"
    /\ hist.requested = 1
    /\ hist.requests[1].size = 10
    /\ hist.requests[1].file = 10

----------------------------------------------------------------------------
(* Further properties of the classification pass *)

Silent == cfg.SILENT_MODE
NoBuckets == [b \in BucketNames |-> EmptyDir]

\* C11: in silent mode a pass leaves the filesystem as it found it: no
\* directory is made, no bucket gets a file, no temporary file is left and
\* every rule file that was read holds the text that was read, a repaired
\* rule included; the decision is logged all the same.
C11_SilentFrame ==
    Silent =>
        /\ dirs = {}
        /\ buckets = NoBuckets
        /\ temps = 0
        /\ \A f \in DOMAIN log :
              /\ f \in DOMAIN files
              /\ files[f] = log[f].read
              /\ log[f].reason \in {"complexity", "weak-indicator", "non-cve",
                                    "broken", "year", "none"}

\* C12: a rule that is not weak by score, has no weak indicator and no
\* missing-CVE marker, is valid (at once or once repaired) and has no
\* CVE-YYYY-digits token in the text that was read is not handed to
\* move_or_copy_file: it stays in yara-db, no bucket changes and no
\* directory is made.
C12_LeftInPlace ==
    [][\A f \in FileNames :
          (f \in listing /\ f \notin listing') =>
             LET r == log'[f]
                 s == calculate_complexity(r.read)
                 unmatched == /\ ~(0 < s /\ s < 4 * cfg.YARA_COMPLEXITY_THRESHOLD)
                              /\ r.read.marks \cap WeakIndicators = {}
                              /\ r.read.marks \cap {CveNA, CvePlaceholder} = {}
                              /\ r.check.result
                              /\ r.read.cves = <<>>
             IN  unmatched => /\ f \in DOMAIN files'
                              /\ buckets' = buckets
                              /\ dirs' = dirs
                              /\ decisions' = decisions]_vars

\* files are moved, and a valid rule without a CVE token is still in yara-db
\* and in no bucket after the pass
C12_Witness ==
    /\ Moving
    /\ PassComplete
    /\ \E f \in DOMAIN log :
          /\ log[f].reason = "none"
          /\ log[f].check.result
          /\ log[f].read.cves = <<>>
          /\ f \in DOMAIN files
          /\ BucketsOf(f) = {}
          /\ decisions[f] = 0

\* C13: when fix_yara_rule returns nothing, or a text that
\* is_unacceptable_yara_rule_response flags, check_rule_syntax reports the
\* rule invalid with one run of the YARA binary in all and no temporary file.
C13_NoSecondValidation ==
    \A f \in DOMAIN log :
        LET r == log[f]
            nothing == r.fixed_content.kind = "none"
            flagged == /\ r.fixed_content.kind = "text"
                       /\ r.fixed_content.text.marks \cap
                            {"No suitable response", "CHANGE_ME", "CVE-XXXX-XXXX",
                             "$string1"} # {}
        IN  (nothing \/ flagged) =>
               /\ ~r.check.result
               /\ r.check.validator_calls = 1
               /\ r.check.temp_files = 0
               /\ r.check.fixed = <<>>
               /\ r.check.content = r.read
               /\ r.sub_folder = "broken"

\* the fixed text of a failing rule held CHANGE_ME and the rule was reported
\* invalid after one run of the YARA binary
C13_Witness ==
    \E f \in DOMAIN log :
        /\ ~log[f].read.ok
        /\ log[f].fixed_content.kind = "text"
        /\ "CHANGE_ME" \in log[f].fixed_content.text.marks
        /\ log[f].fixed_content.text.ok
        /\ log[f].check.validator_calls = 1
        /\ ~log[f].check.result

\* C14: check_rule_syntax changes the rule file only when the second run of
\* the YARA binary, on the fixed text, succeeds: the file then holds the
\* fixed text and the result is valid.  Valid at the first run, repair off,
\* nothing from the oracle, an unacceptable fix, a fixed text that fails:
\* the file holds what it held.
C14_FileChangedOnlyOnRepair ==
    \A f \in DOMAIN log :
        LET r == log[f]
            c == r.check
            repaired == /\ c.validator_calls = 2
                        /\ r.fixed_content.kind = "text"
                        /\ r.fixed_content.text.ok
            on_disk == IF f \in DOMAIN files THEN {files[f]} ELSE {}
            in_buckets == {buckets[b][f] : b \in BucketsOf(f)}
        IN  /\ repaired => /\ c.result
                           /\ c.content = r.fixed_content.text
                           /\ on_disk \subseteq {r.fixed_content.text}
            /\ ~repaired => /\ c.content = r.read
                            /\ on_disk \subseteq {r.read}
                            /\ c.validator_calls = 2 => ~c.result
            /\ (r.reason \in {"broken", "year", "none"} /\ pass = 1) =>
                   in_buckets \subseteq {c.content}
            /\ (r.read.ok \/ ~cfg.FIX_BAD_RULES \/ r.fixed_content.kind # "text"
                   \/ ~r.fixed_content.text.ok
                   \/ "CHANGE_ME" \in r.fixed_content.text.marks) => ~repaired

\* a failing rule was repaired and its file, still in yara-db, holds the
\* fixed text
C14_Witness ==
    \E f \in DOMAIN log :
        /\ ~log[f].read.ok
        /\ log[f].check.result
        /\ log[f].check.validator_calls = 2
        /\ f \in DOMAIN files
        /\ files[f] = log[f].fixed_content.text
        /\ files[f] # log[f].read

----------------------------------------------------------------------------
(* Further properties of the synthesis pass *)

Inspected == pc \in {"read", "done"}
Requests == {hist.requests[n] : n \in 1..Len(hist.requests)}
ClusterAt(p) == clusters[p[1]][p[2]]

\* C15: every cluster for which a regex was requested at the inspection after
\* a file is empty, its key kept, before the next file is read, whatever the
\* request came to.
C15_ResetAfterRequest ==
    Inspected =>
        \A r \in Requests :
            \E k \in 1..Len(Group(r.category)) :
                /\ Group(r.category)[k].key = r.key
                /\ Group(r.category)[k].members = <<>>

\* C16: no request for a regex is made for a cluster whose present members
\* already went into a request that came back without a pattern.
C16_NoRetry == \A r \in Requests : ~r.retry

Keys(group) == [k \in 1..Len(group) |-> group[k].key]
Members(group, k) == {group[k].members[n] : n \in 1..Len(group[k].members)}
IsPrefix(a, b) == Len(a) <= Len(b) /\ SubSeq(b, 1, Len(a)) = a

\* C20: in a pass no string value is a member of two clusters of its length
\* category (every occurrence of a string is appended to the same cluster),
\* every member of a cluster, and its key, has the length category of the
\* map that holds the cluster, and no cluster key is ever removed.
C20_OneClusterPerString ==
    /\ [](pc # "idle" =>
            \A c \in {"short", "medium", "long"} :
               /\ \A k1, k2 \in 1..Len(Group(c)) :
                     k1 # k2 => /\ Members(Group(c), k1) \cap Members(Group(c), k2) = {}
                                /\ Group(c)[k1].key # Group(c)[k2].key
               /\ \A k \in 1..Len(Group(c)) :
                     /\ categorize_string_length(Group(c)[k].key) = c
                     /\ \A m \in Members(Group(c), k) :
                           /\ categorize_string_length(m) = c
                           /\ (c = "short") = (Len(m) <= 20)
                           /\ (c = "long") = (Len(m) > 100))
    /\ [][pc # "idle" =>
            \A c \in {"short", "medium", "long"} :
               IsPrefix(Keys(clusters[c]), Keys(clusters'[c]))]_vars

\* X occurred twice, after the cluster of K2 was made in between, and both
\* occurrences are in the cluster of K1
C20_Witness ==
    /\ pc # "idle"
    /\ clusters.short = << [key |-> K1, members |-> <<K1, X, X>>],
                           [key |-> K2, members |-> <<K2>>] >>

\* the pass is over: the walk was exhausted, or an exception ended it
Over == pc \in {"done", "aborted", "read failed"}

\* C19: a file that cannot be read, or a request to the oracle that fails,
\* does not end the pass: when the pass is over every rule file of the
\* corpus was read or skipped, and every cluster of the last inspection
\* was looked at.
C19_PassGoesOn ==
    Over => /\ pc = "done"
            /\ idx = Len(corpus.files)
            /\ todo = <<>>

----------------------------------------------------------------------------
(* Properties of runs one after another *)

MasterNames == {emitted[n].name : n \in 1..Len(emitted)}
Opened == {corpus.paths[n] : n \in 1..idx}

\* C17: no file the engine has emitted is read back: the synthesis pass
\* opens no master rule file and no file of an output bucket, and the
\* classification pass reads no master rule file.
C17_NeverReadBack ==
    /\ \A path \in Opened :
          /\ path.name \notin MasterNames
          /\ path.folder = Root
    /\ \A f \in DOMAIN log : f \notin MasterNames

\* C18: no two master rule files that were written have the same name.
C18_NamesDiffer ==
    \A m, n \in 1..Len(emitted) : m # n => emitted[m].name # emitted[n].name

----------------------------------------------------------------------------
(* The order of routing, validation and repair *)

\* C22: the YARA binary and the repair oracle are called for a rule only
\* when it is not weak by score, has no weak indicator and no missing-CVE
\* marker; a rule routed to weak-rules or to non-cve by one of these was
\* neither validated nor sent to the oracle, and its text is as it was read.
C22_ValidatedLast ==
    \A f \in DOMAIN log :
        LET r == log[f]
            s == calculate_complexity(r.read)
            earlier == \/ 0 < s /\ s < 4 * cfg.YARA_COMPLEXITY_THRESHOLD
                       \/ r.read.marks \cap WeakIndicators # {}
                       \/ r.read.marks \cap {CveNA, CvePlaceholder} # {}
        IN  /\ earlier <=> r.sub_folder \in {"weak-rules", "non-cve"}
            /\ earlier => /\ r.check.validator_calls = 0
                          /\ r.check.oracle_calls = 0
                          /\ r.check.temp_files = 0
                          /\ r.fixed_content = NotAsked
                          /\ f \in DOMAIN files => files[f] = r.read
                          /\ (pass = 1 /\ ~Silent) => buckets[r.sub_folder][f] = r.read
            /\ ~earlier => r.check.validator_calls >= 1
            /\ r.check.oracle_calls > 0 => ~earlier /\ ~r.read.ok

\* a rule that the YARA binary would reject went to weak-rules for its weak
\* indicator, unvalidated and as it was read
C22_Witness ==
    \E f \in DOMAIN log :
        /\ ~Silent /\ cfg.FIX_BAD_RULES /\ pass = 1
        /\ ~log[f].read.ok
        /\ log[f].reason = "weak-indicator"
        /\ log[f].check.validator_calls = 0
        /\ buckets["weak-rules"][f] = log[f].read

\* C23: the destination of a rule that was repaired is that of the text read
\* before the repair: the year of its first CVE-YYYY-digits token, or left in
\* place without one; the file that lands in the year bucket holds the fixed
\* text, with or without a CVE token of its own.
C23_DestinationFromReadText ==
    \A f \in DOMAIN log :
        LET r == log[f]
            repaired == r.check.result /\ r.check.validator_calls = 2
            fixed == r.fixed_content.text
        IN  repaired =>
               /\ r.sub_folder = IF r.read.cves # <<>>
                                 THEN "year-" \o r.read.cves[1] ELSE LeftInPlace
               /\ r.check.content = fixed
               /\ (r.read.cves # <<>> /\ ~Silent /\ pass = 1) =>
                     /\ f \in DOMAIN buckets[r.sub_folder]
                     /\ buckets[r.sub_folder][f] = fixed
                     /\ BucketsOf(f) = {r.sub_folder}
               /\ (r.read.cves = <<>>) => /\ f \in DOMAIN files
                                          /\ files[f] = fixed

\* a rule with CVE-2019 was repaired to a text without a CVE token, and the
\* fixed text is in year-2019
C23_Witness ==
    \E f \in DOMAIN log :
        /\ ~Silent /\ pass = 1
        /\ log[f].check.result /\ log[f].check.validator_calls = 2
        /\ log[f].read.cves = <<"2019", "2021">>
        /\ log[f].fixed_content.text.cves = <<>>
        /\ f \in DOMAIN buckets["year-2019"]
        /\ buckets["year-2019"][f] = log[f].fixed_content.text

----------------------------------------------------------------------------
(* Properties of the conversion of samples *)

Raised == {i \in DOMAIN converted : converted[i].outcome = "raises"}

\* C21: an oracle call of create_yara_rule that raises comes back as a text
\* for which is_unacceptable_yara_rule_response is true, and no rule file is
\* written for that sample.
C21_FailureIsSentinel ==
    \A i \in Raised :
        /\ is_unacceptable_yara_rule_response(converted[i].yara_rule)
        /\ ~converted[i].written
        /\ converted[i].output_file_name \in DOMAIN files
              => files[converted[i].output_file_name] # converted[i].yara_rule
====
